---------------------------- MODULE Spec2Model ----------------------------
(***************************************************************************)
(* A model of satpass: the orbital-element store (tle.rs), the track store *)
(* (bdeck.rs), the visibility-window scan and the max-elevation bisection  *)
(* (orbital.rs) and the per-fix correlation pipeline (main.rs).            *)
(*                                                                         *)
(* Rust indices are kept 0-based as in the source; At(s, i) reads s[i].    *)
(* f64 values are modelled by integers, and the values produced by the     *)
(* linear interpolation by exact rationals [n |-> numerator, d |-> denom]. *)
(***************************************************************************)
EXTENDS Integers, Sequences, FiniteSets, TLC

VARIABLES
    \* tle.rs: TLEManager and one call of select_tle_index
    tles,          \* TLEManager.tles, each record reduced to its epoch_timestamp
    target_time,   \* argument of select_tle_index
    sel_result,    \* Pending, or the Option<usize> returned
    \* tle.rs: one run of TLEManager::from_file
    tl_pc,         \* "pairs" (the while let of line 32), "done" (Ok returned) or
                   \* "failed" (an unwrap panicked: no TLEManager is returned)
    content,       \* the lines of the file read at line 29
    tle_lines,     \* content.lines(): the lines still to be read
    \* tle.rs: one call of tle_epoch_to_timestamp
    tle_epoch,     \* argument
    epoch_result, \* Pending, Panic, or Some(timestamp) returned
    \* main.rs: Config
    step_hours,    \* --step-hours
    \* bdeck.rs: one run of BDeck::from_file
    ld_pc,         \* "lines" (the for loop of line 21), "done" (Ok returned) or
                   \* "failed" (an unwrap panicked: no BDeck is returned)
    file,          \* the records of the file read at line 19
    lines,         \* file.lines(): the records still to be read
    last_time,     \* the line_time of the last record kept, empty at first
    \* bdeck.rs: BDeck and one call of interpolate_with_index
    bdeck,         \* [time, intensity, latitude, longitude]: the four Vec<f64>
    query_time,    \* argument of interpolate_with_index
    index,         \* the caller's cursor (&mut usize)
    index0,        \* the cursor as it was passed in
    itp_result,    \* Pending, or the Option<(f64, f64, f64)> returned
    \* orbital.rs: one run of build_passes, and of the loop of get_passes over
    \* the windows it returned
    bp_pc,         \* "entry", "rise" (loop of line 96), "set" (loop of line 122), "done"
                   \* (build_passes has returned; the for loop of line 212 runs),
                   \* "returned" (get_passes has returned)
    start_utc,     \* argument
    stop_utc,      \* argument
    currtime,      \* the scan time
    obs,           \* what observe_orbit answers at time obs.time: [time, el, rate]
    pass,          \* the Pass being built: [aos, los], each None or Some(time)
    passes,        \* the Vec<Pass> being returned
    pass_iter,     \* passes.passes.iter(): the windows the loop of line 212 has left
    pass_events,   \* the Vec<SatPassEvent> get_passes builds
    \* orbital.rs: one run of find_max_elevation
    fm_pc,         \* "loop" (the while of line 44) or "done"
    bracket,       \* the arguments: [lo, hi], lo < hi
    rate_fn,       \* the elevation rate the kinematics answers with: [root2, dir]
    lower_time, upper_time, lower_deriv, upper_deriv,
    max_ele_time_candidate,
    iteration,
    \* main.rs: the parallel map over the fixes
    pl_pc,           \* "parallel" (the map of line 77 is running) or "collected"
    intensity_thres, \* --intensity
    distance_thres,  \* --distance
    sky,             \* what the kinematics answers with: the satellites' overpasses
    workers,         \* threads of the pool
    task,            \* per fix i, the closure's state: [pc, pass_events, interp_index,
                     \* acc], and the history `handled` of the candidates it has treated
    all_passes       \* the collected, flattened Vec<TCSatPassEvent>

selVars == <<tles, target_time, sel_result>>
tleVars == <<tl_pc, content, tle_lines, tle_epoch, epoch_result>>
ldVars == <<step_hours, ld_pc, file, lines, last_time>>
itpVars == <<query_time, index, index0, itp_result>>
bpVars == <<bp_pc, start_utc, stop_utc, currtime, obs, pass, passes, pass_iter, pass_events>>
fmVars == <<fm_pc, bracket, rate_fn, lower_time, upper_time, lower_deriv, upper_deriv,
            max_ele_time_candidate, iteration>>
plVars == <<pl_pc, intensity_thres, distance_thres, sky, workers, task, all_passes>>
vars == <<selVars, tleVars, ldVars, bdeck, itpVars, bpVars, fmVars, plVars>>

----------------------------------------------------------------------------
(* Bounds of the model                                                      *)

MaxTles == 3        \* records in the element store
MaxEpoch == 6       \* epochs are drawn from 0..MaxEpoch
MaxFixes == 3       \* fixes in a track
MaxGap == 3         \* time between two consecutive fixes is 1..MaxGap
MaxStop == 9        \* build_passes scans [0, stop_utc], stop_utc in 0..MaxStop
MaxBack == 2        \* step_pass finds a rise at most MaxBack seconds before start_utc
MaxWidth == 24      \* find_max_elevation is given brackets [0, w], w in 1..MaxWidth
MaxLines == 3       \* records in a track file
MaxTasks == 2       \* fixes of the track the pipeline runs on
MaxOverpasses == 3  \* overpasses in the sky the pipeline runs under
MaxWorkers == 2     \* threads of the pool
MaxTleLines == 4    \* lines in an element file

\* <<latitude, longitude, intensity>> of a fix, drawn from this set
FixValues == {<<0, 6, 1>>, <<3, 2, 4>>}

----------------------------------------------------------------------------
(* Helpers                                                                  *)

At(s, i) == s[i + 1]

Min(a, b) == IF a <= b THEN a ELSE b

\* A BDeck with no fixes
NoFixes == [time |-> <<>>, intensity |-> <<>>, latitude |-> <<>>, longitude |-> <<>>]

Pending == <<"Pending">>
None == <<"None">>
Some(x) == <<"Some", x>>

Abs(x) == IF x < 0 THEN -x ELSE x

RECURSIVE Gcd(_, _)
Gcd(a, b) == IF b = 0 THEN a ELSE Gcd(b, a % b)

\* Exact rationals in lowest terms, denominators positive (the sign of a
\* negative divisor moves to the numerator, as in the f64 quotient)
Rat(n, d) ==
    LET g == Gcd(Abs(n), Abs(d))
        s == IF d < 0 THEN -1 ELSE 1
    IN  [n |-> (s * n) \div g, d |-> Abs(d) \div g]
Whole(v) == Rat(v, 1)
RatEq(a, b) == a.n * b.d = b.n * a.d
RatLe(a, b) == a.n * b.d <= b.n * a.d
RatLt(a, b) == a.n * b.d < b.n * a.d

\* Nondecreasing / strictly increasing sequences of numbers
IsSorted(s) == \A k \in 1..(Len(s) - 1) : s[k] <= s[k + 1]
IsStrictlyIncreasing(s) == \A k \in 1..(Len(s) - 1) : s[k] < s[k + 1]

SeqsUpTo(S, n) == UNION {[1..k -> S] : k \in 0..n}

(***************************************************************************)
(* slice::binary_search_by, as its contract: `ords` is the comparator's    *)
(* answer for each element.  If some element compares Equal, any such      *)
(* index may be returned (Ok); otherwise Err carries the insertion point.  *)
(* The result is a set: every outcome the library may produce.  On a slice *)
(* the comparator does not order (Less.., Equal.., Greater..) the library  *)
(* leaves the result unspecified: Ok only ever names an element that       *)
(* compared Equal, Err may carry any position.                             *)
(***************************************************************************)
OrdRank(o) == IF o = "Less" THEN 0 ELSE IF o = "Equal" THEN 1 ELSE 2

Partitioned(ords) ==
    \A j \in 1..Len(ords) : \A k \in j..Len(ords) : OrdRank(ords[j]) <= OrdRank(ords[k])

binary_search_by(ords) ==
    LET hits == {i \in 0..(Len(ords) - 1) : At(ords, i) = "Equal"}
    IN  IF Partitioned(ords)
        THEN IF hits # {}
             THEN {<<"Ok", i>> : i \in hits}
             ELSE {<<"Err", Cardinality({i \in 0..(Len(ords) - 1) : At(ords, i) = "Less"})>>}
        ELSE {<<"Ok", i>> : i \in hits} \cup {<<"Err", k>> : k \in 0..Len(ords)}

----------------------------------------------------------------------------
(* tle.rs                                                                   *)

\* The comparator closure of select_tle_index
EpochOrdering(epoch_timestamp, t) ==
    IF epoch_timestamp < t THEN "Less"
    ELSE IF epoch_timestamp > t THEN "Greater"
    ELSE "Equal"

\* The Err(insert_index) arm with the tie going to the later record
NearestNeighbourLateTie(ts, insert_index, t) ==
    IF insert_index = 0 THEN Some(0)
    ELSE IF insert_index >= Len(ts) THEN Some(Len(ts) - 1)
    ELSE LET before == insert_index - 1
             after == insert_index
         IN  IF Abs(At(ts, before) - t) < Abs(At(ts, after) - t)
             THEN Some(before)
             ELSE Some(after)

\* The Err(insert_index) arm of select_tle_index
NearestNeighbour(ts, insert_index, t) ==
    IF insert_index = 0 THEN Some(0)
    ELSE IF insert_index >= Len(ts) THEN Some(Len(ts) - 1)
    ELSE LET before == insert_index - 1
             after == insert_index
         IN  IF Abs(At(ts, before) - t) <= Abs(At(ts, after) - t)
             THEN Some(before)
             ELSE Some(after)

\* TLEManager::select_tle_index: the set of values it may return
select_tle_index(ts, t) ==
    IF Len(ts) = 0 THEN {None}
    ELSE {IF r[1] = "Ok" THEN Some(r[2]) ELSE NearestNeighbour(ts, r[2], t) :
            r \in binary_search_by([k \in 1..Len(ts) |-> EpochOrdering(ts[k], t)])}

\* Stores as TLEManager::from_file leaves them: sorted ascending by epoch
SortedStores == {s \in SeqsUpTo(0..MaxEpoch, MaxTles) : IsSorted(s)}

SelInit ==
    /\ tles \in SortedStores
    /\ target_time \in (0 - 1)..(MaxEpoch + 1)
    /\ sel_result = Pending

SelIdle ==
    /\ tles = <<>>
    /\ target_time = 0
    /\ sel_result = Pending

\* One call of select_tle_index
Select ==
    /\ sel_result = Pending
    /\ sel_result' \in select_tle_index(tles, target_time)
    /\ UNCHANGED <<tles, target_time, ldVars, bdeck, itpVars, bpVars, fmVars, plVars, tleVars>>


----------------------------------------------------------------------------
(* tle.rs: tle_epoch_to_timestamp and TLEManager::from_file                 *)
(*                                                                          *)
(* An epoch field 'YYDDD.fff' is reduced to its two-digit year, its whole   *)
(* day of year and its fraction of a day in thousandths; `malformed` says   *)
(* that the year or the day text is not a number.  A timestamp is held as   *)
(* [day, sec], the count day * 86400 + sec of seconds since 1970-01-01      *)
(* (the counts of the years after 2037 do not fit 32-bit integers).         *)

EpochField(yy, ddd, fff) == [yy |-> yy, ddd |-> ddd, fff |-> fff, malformed |-> FALSE]

Panic == <<"Panic">>

\* A pivot that sends year 57 to the 2000s
YearFullInclusive(year) == IF year <= 57 THEN 2000 + year ELSE 1900 + year

\* let year_full = if year < 57 { 2000 + year } else { 1900 + year }
YearFull(year) == IF year < 57 THEN 2000 + year ELSE 1900 + year

\* chrono's proleptic Gregorian calendar
IsLeap(y) == (y % 4 = 0 /\ y % 100 # 0) \/ y % 400 = 0
DaysInYear(y) == IF IsLeap(y) THEN 366 ELSE 365
LeapsBefore(y) == (y - 1) \div 4 - (y - 1) \div 100 + (y - 1) \div 400
DaysToYear(y) == 365 * (y - 1970) + LeapsBefore(y) - LeapsBefore(1970)

\* NaiveDate::from_yo_opt(year, ordinal), as the day number since 1970-01-01
from_yo_opt(year, ordinal) ==
    IF ordinal >= 1 /\ ordinal <= DaysInYear(year)
    THEN Some(DaysToYear(year) + ordinal - 1)
    ELSE None

\* ((day_of_year - day_of_year.floor()) * 86400.0).round(): fff / 1000 of a
\* day, to the nearest second (86400 / 1000 = 432 / 5; no tie can occur)
SecondsInDay(fff) == (2 * 432 * fff + 5) \div 10

\* tle_epoch_to_timestamp: Panic when an unwrap panics
tle_epoch_to_timestamp(e) ==
    IF e.malformed THEN Panic
    ELSE LET year_full == YearFull(e.yy)
             naive_date == from_yo_opt(year_full, e.ddd)
             seconds_in_day == SecondsInDay(e.fff)
         IN  IF naive_date = None THEN Panic
             ELSE Some([day |-> naive_date[2] + seconds_in_day \div 86400,
                        sec |-> seconds_in_day % 86400])

\* Epoch fields: years about the pivot and leap and common years, days of
\* year about the ends of the year, fractions that round down and up
EpochFields ==
    {EpochField(yy, ddd, fff) :
        yy \in {0, 23, 24, 56, 57, 99}, ddd \in {0, 1, 45, 365, 366, 367},
        fff \in {0, 1, 7, 500, 999}}
    \cup {[EpochField(23, 45, 500) EXCEPT !.malformed = TRUE]}

EpInit ==
    /\ tle_epoch \in EpochFields
    /\ epoch_result = Pending

\* One call of tle_epoch_to_timestamp
Convert ==
    /\ epoch_result = Pending
    /\ epoch_result' = tle_epoch_to_timestamp(tle_epoch)
    /\ UNCHANGED <<tl_pc, content, tle_lines, tle_epoch>>
    /\ UNCHANGED <<selVars, ldVars, bdeck, itpVars, bpVars, fmVars, plVars>>

\* A line of an element file: `long` says line.len() >= 32, and then `epoch`
\* is what stands in line[18..32]
TleLine(long, e) == [long |-> long, epoch |-> e]

\* A line too short for the epoch columns, two well-formed first lines, and
\* a first line whose epoch is not a number
TleLines ==
    {TleLine(FALSE, EpochField(0, 0, 0)),
     TleLine(TRUE, EpochField(23, 45, 500)),
     TleLine(TRUE, EpochField(99, 1, 0)),
     TleLine(TRUE, [EpochField(23, 45, 500) EXCEPT !.malformed = TRUE])}

\* a.epoch_timestamp.partial_cmp(&b.epoch_timestamp) answers Less
TimestampLess(a, b) == a.day < b.day \/ (a.day = b.day /\ a.sec < b.sec)

TlInit ==
    /\ tl_pc = "pairs"
    /\ content \in SeqsUpTo(TleLines, MaxTleLines)
    /\ tle_lines = content
    /\ tles = <<>>

TleIdle ==
    /\ tl_pc = "idle"
    /\ content = <<>>
    /\ tle_lines = <<>>
    /\ tle_epoch = EpochField(0, 1, 0)
    /\ epoch_result = Pending

\* One iteration of the while let of lines 32-42, or the sort and the
\* return of lines 43-48 once fewer than two lines are left
LoadPair ==
    /\ tl_pc = "pairs"
    /\ IF Len(tle_lines) < 2
       THEN /\ tl_pc' = "done"
            /\ tles' = SortSeq(tles, TimestampLess)
            /\ tle_lines' = <<>>
       ELSE LET line1 == tle_lines[1]
                ts == tle_epoch_to_timestamp(line1.epoch)
            IN  /\ tle_lines' = SubSeq(tle_lines, 3, Len(tle_lines))
                /\ IF ~line1.long THEN UNCHANGED <<tl_pc, tles>>
                   ELSE IF ts = Panic THEN tl_pc' = "failed" /\ tles' = <<>>
                   ELSE tles' = Append(tles, ts[2]) /\ UNCHANGED tl_pc
    /\ UNCHANGED <<content, tle_epoch, epoch_result, target_time, sel_result>>
    /\ UNCHANGED <<ldVars, bdeck, itpVars, bpVars, fmVars, plVars>>

----------------------------------------------------------------------------
(* bdeck.rs: BDeck::from_file                                               *)
(*                                                                          *)
(* An input record is reduced to the fields the loader reads: the date as a *)
(* day number and the hour (line[8..18]), the wind field, and latitude and  *)
(* longitude in tenths of a degree with their hemisphere letters.  Stored   *)
(* latitudes and longitudes are kept in tenths of a degree.  `malformed`    *)
(* names the field whose text is not a number ("none" when all are): the    *)
(* hour or the date part of line[8..18], the wind, the latitude or the      *)
(* longitude digits.                                                        *)

\* --step-hours values (main.rs refuses values <= 0)
StepHours == {3, 6, 12}

Record(day, hour, wind, lat, ns, lon, ew) ==
    [day |-> day, hour |-> hour, wind |-> wind, lat |-> lat, ns |-> ns, lon |-> lon, ew |-> ew,
     malformed |-> "none"]

\* Record r with the text of field f not a number
MalformedIn(r, f) == [r EXCEPT !.malformed = f]

\* Well-formed records: two days, hours on and off the six-hour cadence
Records ==
    {Record(day, hour, wind, 150, "N", 1300, "E") :
        day \in {0, 1}, hour \in {0, 3, 6}, wind \in {35, 100}}

\* Longitude magnitudes in tenths of a degree: the meridian, a value in
\* between, the antimeridian
LonMagnitudes == {0, 753, 1800}

\* Records at two times on the cadence with every longitude field, a
\* southern latitude, the wind sentinel, and one record for each field that
\* can be malformed
FieldRecords ==
    {Record(0, hour, 100, 150, "N", lon, ew) :
        hour \in {0, 6}, lon \in LonMagnitudes, ew \in {"E", "W"}}
    \cup {Record(0, 0, 999, 150, "S", 1300, "E")}
    \cup {MalformedIn(Record(0, 6, 100, 150, "N", 1300, "E"), f) :
            f \in {"hour", "date", "wind", "lat", "lon"}}

\* line_time = &line[8..18]: the text YYYYMMDDHH
LineTime(r) == <<r.day, r.hour, r.malformed \in {"hour", "date"}>>

\* A duplicate test that never recognises a repetition
DuplicateNever(lt, r) == FALSE

\* last_time == line_time (line 27)
Duplicate(lt, r) == lt = LineTime(r)

\* line_hour.parse::<i32>().unwrap() % 6 != 0
OffCadence(r) == r.hour % 6 # 0

\* NaiveDateTime::parse_from_str(line_time + "00", "%Y%m%d%H%M") as seconds
Timestamp(r) == r.day * 86400 + r.hour * 3600

\* The wind field: .parse().unwrap_or(0), then 999 read as 0
Wind(r) ==
    LET wind == IF r.malformed = "wind" THEN 0 ELSE r.wind
    IN  IF wind = 999 THEN 0 ELSE wind

\* The unwrap that panics while record r is read, "none" when none does:
\* the hour's before the cadence filter (line 24), then for a record kept
\* the timestamp's (line 33), the latitude's (55) and the longitude's (64)
Panics(lt, r) ==
    IF r.malformed = "hour" THEN "hour"
    ELSE IF r.hour % 6 # 0 \/ Duplicate(lt, r) THEN "none"
    ELSE IF r.malformed \in {"date", "lat", "lon"} THEN r.malformed
    ELSE "none"

\* lat / 10, negated for "S" (kept in tenths)
Latitude(r) == IF r.ns = "S" THEN 0 - r.lat ELSE r.lat

\* lon / 10, 360 - lon for "W" (kept in tenths)
Longitude(r) == IF r.ew = "W" THEN 3600 - r.lon ELSE r.lon

PushFix(b, r) ==
    [time |-> Append(b.time, Timestamp(r)),
     intensity |-> Append(b.intensity, Wind(r)),
     latitude |-> Append(b.latitude, Latitude(r)),
     longitude |-> Append(b.longitude, Longitude(r))]

LdInit ==
    /\ step_hours \in StepHours
    /\ ld_pc = "lines"
    /\ file \in SeqsUpTo(Records, MaxLines)
    /\ lines = file
    /\ last_time = <<>>
    /\ bdeck = NoFixes

\* A load of records that differ in their fields
LdInitFields ==
    /\ step_hours = 6
    /\ ld_pc = "lines"
    /\ file \in SeqsUpTo(FieldRecords, MaxLines)
    /\ lines = file
    /\ last_time = <<>>
    /\ bdeck = NoFixes

LdIdle ==
    /\ step_hours = 6
    /\ ld_pc = "idle"
    /\ file = <<>>
    /\ lines = <<>>
    /\ last_time = <<>>

\* One iteration of the for loop of lines 21-72, or its end (lines 74-79).
\* A panic drops the vectors built so far: no BDeck is returned.
LoadLine ==
    /\ ld_pc = "lines"
    /\ IF lines = <<>>
       THEN /\ ld_pc' = "done"
            /\ UNCHANGED <<lines, last_time, bdeck>>
       ELSE LET r == Head(lines)
            IN  /\ lines' = Tail(lines)
                /\ IF Panics(last_time, r) # "none"
                   THEN /\ ld_pc' = "failed"
                        /\ last_time' = IF Panics(last_time, r) = "hour"
                                        THEN last_time ELSE LineTime(r)
                        /\ bdeck' = NoFixes
                   ELSE /\ UNCHANGED ld_pc
                        /\ IF OffCadence(r) THEN UNCHANGED <<last_time, bdeck>>
                           ELSE IF Duplicate(last_time, r) THEN UNCHANGED <<last_time, bdeck>>
                           ELSE /\ last_time' = LineTime(r)
                                /\ bdeck' = PushFix(bdeck, r)
    /\ UNCHANGED <<step_hours, file, selVars, itpVars, bpVars, fmVars, plVars, tleVars>>

----------------------------------------------------------------------------
(* bdeck.rs: interpolate_with_index                                         *)

\* The range test with the last fix's own time excluded
OutOfRangeLastExcluded(time, q) ==
    q < At(time, 0) \/ q >= At(time, Len(time) - 1)

\* query_time < self.time[0] || query_time > *self.time.last().unwrap()
OutOfRange(time, q) ==
    q < At(time, 0) \/ q > At(time, Len(time) - 1)

\* The comparator closure handed to binary_search_by (no NaN in the model,
\* so partial_cmp always answers)
TimeOrdering(t, q) ==
    IF t < q THEN "Less" ELSE IF t > q THEN "Greater" ELSE "Equal"

\* A forward scan that never moves
ForwardScanStuck(time, i, q) == i

\* while i + 1 < self.time.len() && self.time[i + 1] < query_time { i += 1 }
RECURSIVE ForwardScan(_, _, _)
ForwardScan(time, i, q) ==
    IF i + 1 < Len(time) /\ At(time, i + 1) < q
    THEN ForwardScan(time, i + 1, q)
    ELSE i

\* The stored values of fix i, returned verbatim
Stored(b, i) ==
    <<Whole(At(b.latitude, i)), Whole(At(b.longitude, i)), Whole(At(b.intensity, i))>>

\* v0 + factor * (v1 - v0) with factor == (q - t0) / (t1 - t0), exactly
Lerp(v0, v1, t0, t1, q) ==
    Rat(v0 * (t1 - t0) + (q - t0) * (v1 - v0), t1 - t0)

\* An outcome that rewinds the cursor whenever nothing is returned
OutcomeRewindOnNone(r, ix) == [result |-> r, index |-> IF r = None THEN 0 ELSE ix]

\* The outcome of a call: the value returned and the cursor left behind
Outcome(r, ix) == [result |-> r, index |-> ix]

\* A tail that leaves the cursor on i when the next fix is hit exactly
ResolveCursorBehind(b, q, ix, i) ==
    IF At(b.time, i) = q THEN Outcome(Some(Stored(b, i)), i)
    ELSE IF i + 1 < Len(b.time) /\ At(b.time, i + 1) = q
         THEN Outcome(Some(Stored(b, i + 1)), i)
    ELSE IF i + 1 >= Len(b.time) THEN Outcome(None, ix)
    ELSE LET t0 == At(b.time, i)
             t1 == At(b.time, i + 1)
         IN  Outcome(Some(<<Lerp(At(b.latitude, i), At(b.latitude, i + 1), t0, t1, q),
                            Lerp(At(b.longitude, i), At(b.longitude, i + 1), t0, t1, q),
                            Lerp(At(b.intensity, i), At(b.intensity, i + 1), t0, t1, q)>>),
                     i)

\* The tail of interpolate_with_index once the lower bracket i is known
Resolve(b, q, ix, i) ==
    IF At(b.time, i) = q THEN Outcome(Some(Stored(b, i)), i)
    ELSE IF i + 1 < Len(b.time) /\ At(b.time, i + 1) = q
         THEN Outcome(Some(Stored(b, i + 1)), i + 1)
    ELSE IF i + 1 >= Len(b.time) THEN Outcome(None, ix)
    ELSE LET t0 == At(b.time, i)
             t1 == At(b.time, i + 1)
         IN  Outcome(Some(<<Lerp(At(b.latitude, i), At(b.latitude, i + 1), t0, t1, q),
                            Lerp(At(b.longitude, i), At(b.longitude, i + 1), t0, t1, q),
                            Lerp(At(b.intensity, i), At(b.intensity, i + 1), t0, t1, q)>>),
                     i)

\* A relocation that takes the insertion point itself as the lower bracket
RelocateOffByOne(b, q, ix, r) ==
    LET found == r[2]
    IN  IF r[1] = "Ok" THEN Outcome(Some(Stored(b, found)), found)
        ELSE IF found = 0 \/ found >= Len(b.time) THEN Outcome(None, ix)
        ELSE Resolve(b, q, ix, found)

\* The branch taken when query_time is behind the cursor: r is the answer
\* of binary_search_by
Relocate(b, q, ix, r) ==
    LET found == r[2]
    IN  IF r[1] = "Ok" THEN Outcome(Some(Stored(b, found)), found)
        ELSE IF found = 0 \/ found >= Len(b.time) THEN Outcome(None, ix)
        ELSE Resolve(b, q, ix, found - 1)

\* BDeck::interpolate_with_index: the set of outcomes it may have
interpolate_with_index(b, q, ix) ==
    IF Len(b.time) = 0 THEN {Outcome(None, ix)}
    ELSE IF OutOfRange(b.time, q) THEN {Outcome(None, ix)}
    ELSE LET i == Min(ix, Len(b.time) - 1)
         IN  IF q < At(b.time, i)
             THEN {Relocate(b, q, ix, r) :
                     r \in binary_search_by([k \in 1..Len(b.time) |-> TimeOrdering(b.time[k], q)])}
             ELSE {Resolve(b, q, ix, ForwardScan(b.time, i, q))}

\* Tracks with strictly increasing times: the first fix at time 0, then gaps
RECURSIVE TimesOf(_)
TimesOf(gaps) ==
    IF Len(gaps) = 0 THEN <<0>>
    ELSE LET front == TimesOf(SubSeq(gaps, 1, Len(gaps) - 1))
         IN  Append(front, front[Len(front)] + gaps[Len(gaps)])

TrackOf(times, vals) ==
    [time |-> times,
     latitude |-> [k \in 1..Len(vals) |-> vals[k][1]],
     longitude |-> [k \in 1..Len(vals) |-> vals[k][2]],
     intensity |-> [k \in 1..Len(vals) |-> vals[k][3]]]

Tracks ==
    {NoFixes} \cup
    UNION {{TrackOf(TimesOf(g), v) : g \in [1..(n - 1) -> 1..MaxGap], v \in [1..n -> FixValues]} :
             n \in 1..MaxFixes}

LastTime(b) == IF Len(b.time) = 0 THEN 0 ELSE b.time[Len(b.time)]

\* Tracks as from_file can leave them: times in file order, rising or not;
\* only a record repeating the time of the record before it is dropped
NoRepeat(s) == \A k \in 1..(Len(s) - 1) : s[k] # s[k + 1]

FileOrderTracks ==
    {NoFixes} \cup
    UNION {{TrackOf(t, v) : t \in {u \in [1..n -> 0..MaxGap] : NoRepeat(u)}, v \in [1..n -> FixValues]} :
             n \in 1..MaxFixes}

ItpInit ==
    /\ bdeck \in Tracks
    /\ query_time \in (0 - 1)..(LastTime(bdeck) + 1)
    /\ index0 \in 0..(MaxFixes + 1)
    /\ index = index0
    /\ itp_result = Pending

\* A query against a track in file order
ItpInitFileOrder ==
    /\ bdeck \in FileOrderTracks
    /\ query_time \in (0 - 1)..(MaxGap + 1)
    /\ index0 \in 0..(MaxFixes + 1)
    /\ index = index0
    /\ itp_result = Pending

ItpIdle ==
    /\ query_time = 0
    /\ index0 = 0
    /\ index = 0
    /\ itp_result = Pending

\* One call of interpolate_with_index
Interpolate ==
    /\ itp_result = Pending
    /\ \E o \in interpolate_with_index(bdeck, query_time, index) :
          /\ itp_result' = o.result
          /\ index' = o.index
    /\ UNCHANGED <<bdeck, query_time, index0, selVars, ldVars, bpVars, fmVars, plVars, tleVars>>

----------------------------------------------------------------------------
(* orbital.rs: build_passes                                                 *)
(*                                                                          *)
(* The kinematics (predict_orbit, predict_observe_orbit, step_pass,         *)
(* refine_obs_elevation) are external: an observation is any elevation and  *)
(* elevation rate, fixed for a given time while the scan stays there; a     *)
(* refined crossing is reported at the time refine_obs_elevation was given  *)
(* (times are whole seconds); the rise that step_pass finds lies at or      *)
(* before the time it was asked about.                                      *)

min_elevation == 0       \* PredictObserver.min_elevation set by get_passes
coarse_step_sec == 10
fine_step_sec == 1
band_deg == 5

\* Elevations in degrees: below the threshold and outside the band, at the
\* threshold, above it and outside the band; elevation rates by sign
Elevations == {0 - 20, 0, 20}
Rates == {0 - 1, 0, 1}

Observation(t, el, rate) == [time |-> t, el |-> el, rate |-> rate]

\* observe_orbit(oe, t): the observations the kinematics may answer with
observe_orbit(t) ==
    IF obs.time = t THEN {obs}
    ELSE {Observation(t, el, rate) : el \in Elevations, rate \in Rates}

NewPass == [aos |-> None, los |-> None]

\* refine_obs_elevation(oe, t, mode).unwrap(): the observation's time
refine_obs_elevation(t) == t

\* A step that does not move the scan time
StepNone(el) == 0

\* let step = if (satellite_el - min_elev_deg).abs() > band_deg {coarse} else {fine}
Step(el) ==
    IF Abs(el - min_elevation) > band_deg THEN coarse_step_sec ELSE fine_step_sec

\* A push that keeps only a window with both observations
PushPassIfComplete(ps, p) ==
    IF p.aos # None /\ p.los # None THEN Append(ps, p) ELSE ps

\* passes.push(pass), line 154
PushPass(ps, p) == Append(ps, p)

BpInit ==
    /\ bp_pc = "entry"
    /\ start_utc = 0
    /\ stop_utc \in 0..MaxStop
    /\ currtime = start_utc
    /\ obs \in {Observation(start_utc, el, rate) : el \in Elevations, rate \in Rates}
    /\ pass = NewPass
    /\ passes = <<>>
    /\ pass_iter = <<>>
    /\ pass_events = <<>>

BpIdle ==
    /\ bp_pc = "idle"
    /\ start_utc = 0
    /\ stop_utc = 0
    /\ currtime = 0
    /\ obs = Observation(0, 0, 0)
    /\ pass = NewPass
    /\ passes = <<>>
    /\ pass_iter = <<>>
    /\ pass_events = <<>>

\* Lines 73-86: observe at start_utc; when already in a pass, go back to
\* one second before the rise that step_pass finds
BpEntry ==
    /\ bp_pc = "entry"
    /\ \E o \in observe_orbit(start_utc) :
          /\ obs' = o
          /\ IF Abs(o.el) >= min_elevation
             THEN \E real_aos \in (start_utc - MaxBack)..start_utc :
                      currtime' = real_aos - 1
             ELSE currtime' = currtime
    /\ bp_pc' = "rise"
    /\ pass' = NewPass
    /\ UNCHANGED <<start_utc, stop_utc, passes, pass_iter, pass_events, selVars, ldVars, bdeck, itpVars, fmVars, plVars, tleVars>>

\* One iteration of the loop of lines 96-117 (rough time step until AOS)
BpRiseStep ==
    /\ bp_pc = "rise"
    /\ \/ /\ currtime >= stop_utc                 \* break 'outer
          /\ bp_pc' = "done"
          /\ pass_iter' = passes
          /\ UNCHANGED <<currtime, obs, pass>>
       \/ /\ currtime < stop_utc
          /\ UNCHANGED pass_iter
          /\ \E o \in observe_orbit(currtime) :
                /\ obs' = o
                /\ \/ /\ o.el >= min_elevation /\ o.rate > 0
                      /\ pass' = [pass EXCEPT
                                     !.aos = Some(refine_obs_elevation(currtime - fine_step_sec))]
                      /\ bp_pc' = "set"
                      /\ UNCHANGED currtime
                   \/ /\ ~(o.el >= min_elevation /\ o.rate > 0)
                      /\ currtime' = currtime + Step(o.el)
                      /\ UNCHANGED <<bp_pc, pass>>
    /\ UNCHANGED <<start_utc, stop_utc, passes, pass_events, selVars, ldVars, bdeck, itpVars, fmVars, plVars, tleVars>>

\* One iteration of the loop of lines 122-143 (now find LOS); on leaving
\* the loop, lines 144-154 push the pass and the outer loop starts the next
BpSetStep ==
    /\ bp_pc = "set"
    /\ \E o \in observe_orbit(currtime) :
          /\ obs' = o
          /\ \/ /\ o.el <= min_elevation /\ o.rate < 0
                /\ passes' = PushPass(passes, [pass EXCEPT
                                     !.los = Some(refine_obs_elevation(currtime - fine_step_sec))])
                /\ pass' = NewPass
                /\ bp_pc' = "rise"
                /\ UNCHANGED currtime
             \/ /\ ~(o.el <= min_elevation /\ o.rate < 0)
                /\ currtime' = currtime + Step(o.el)
                /\ IF currtime' >= stop_utc
                   THEN /\ passes' = PushPass(passes, pass)
                        /\ pass' = NewPass
                        /\ bp_pc' = "rise"
                   ELSE UNCHANGED <<passes, pass, bp_pc>>
    /\ UNCHANGED <<start_utc, stop_utc, pass_iter, pass_events, selVars, ldVars, bdeck, itpVars, fmVars, plVars, tleVars>>

\* A filter whose first test is is_some() in place of is_none()
DiscardedIfRise(p) == p.aos # None \/ p.los = None

\* pass.aos.is_none() || pass.los.is_none() (line 213)
Discarded(p) == p.aos = None \/ p.los = None

\* The event of lines 222-233 for a window whose closest approach
\* find_max_elevation put at time t; distance and elevation are left to the
\* geodesic and the kinematics
PassEvent(t) == [cpa_time |-> t, cpa_distance |-> 0, elevation |-> 90]

\* One iteration of the for loop of lines 212-234 of Orbital::get_passes over
\* the windows build_passes returned, or its end (line 236);
\* find_max_elevation answers with a time of the bracket [aos.time, los.time],
\* drawn here from its two ends
GetPassesStep ==
    /\ bp_pc = "done"
    /\ IF pass_iter = <<>>
       THEN /\ bp_pc' = "returned"
            /\ UNCHANGED <<pass_iter, pass_events>>
       ELSE LET p == Head(pass_iter)
            IN  /\ pass_iter' = Tail(pass_iter)
                /\ UNCHANGED bp_pc
                /\ IF Discarded(p) THEN UNCHANGED pass_events
                   ELSE \E max_elev_time \in {p.aos[2], p.los[2]} :
                            pass_events' = Append(pass_events, PassEvent(max_elev_time))
    /\ UNCHANGED <<start_utc, stop_utc, currtime, obs, pass, passes>>
    /\ UNCHANGED <<selVars, ldVars, bdeck, itpVars, fmVars, plVars, tleVars>>

----------------------------------------------------------------------------
(* orbital.rs: find_max_elevation                                           *)
(*                                                                          *)
(* Times are f64 Unix seconds.  The model's time unit is the spacing of     *)
(* f64 values at such times (2^-22 s for 2^30 <= t < 2^31), so that times   *)
(* are integers, the tolerance 1e-6 s is 4 units (1e-6 * 2^22 = 4.19) and   *)
(* the midpoint (upper + lower) / 2.0 of an odd-width bracket is rounded to *)
(* one of its two neighbours.                                               *)
(* The elevation rate is external: [root2, dir] is the rate with its single *)
(* sign change at time root2 / 2, of sign dir before it and -dir after it;  *)
(* AnyRate is a rate of which nothing is known: the function asks for it at *)
(* each time once, so any sign may be answered each time.                   *)

Tolerance == 4            \* 1e-6 seconds
MaxIterations == 10000

Sign(x) == IF x > 0 THEN 1 ELSE IF x < 0 THEN 0 - 1 ELSE 0

\* elevation_derivative(oe, time)
elevation_derivative(f, t) == f.dir * Sign(f.root2 - 2 * t)

AnyRate == [any |-> TRUE]

\* The signs elevation_derivative(oe, t) may have under rate f
ElevationRates(f, t) ==
    IF "root2" \in DOMAIN f THEN {elevation_derivative(f, t)} ELSE Rates

\* (upper_time + lower_time) / 2.0, in f64
Midpoints(ut, lt) ==
    IF (ut + lt) % 2 = 0 THEN {(ut + lt) \div 2}
    ELSE {(ut + lt) \div 2, (ut + lt) \div 2 + 1}

\* A bracket update that keeps the half without the sign change
NarrowWrongHalf(lt, ut, ld, ud, c, cd) ==
    IF cd * ld < 0
    THEN [brk |-> FALSE, lower_time |-> c, upper_time |-> ut, lower_deriv |-> cd, upper_deriv |-> ud]
    ELSE IF cd * ud < 0
    THEN [brk |-> FALSE, lower_time |-> lt, upper_time |-> c, lower_deriv |-> ld, upper_deriv |-> cd]
    ELSE [brk |-> TRUE, lower_time |-> lt, upper_time |-> ut, lower_deriv |-> ld, upper_deriv |-> ud]

\* A bracket update that records the derivative and leaves the bound
NarrowDerivOnly(lt, ut, ld, ud, c, cd) ==
    IF cd * ld < 0
    THEN [brk |-> FALSE, lower_time |-> lt, upper_time |-> ut, lower_deriv |-> ld, upper_deriv |-> cd]
    ELSE IF cd * ud < 0
    THEN [brk |-> FALSE, lower_time |-> lt, upper_time |-> ut, lower_deriv |-> cd, upper_deriv |-> ud]
    ELSE [brk |-> TRUE, lower_time |-> lt, upper_time |-> ut, lower_deriv |-> ld, upper_deriv |-> ud]

\* Lines 48-57: check whether the derivative has changed sign
Narrow(lt, ut, ld, ud, c, cd) ==
    IF cd * ld < 0
    THEN [brk |-> FALSE, lower_time |-> lt, upper_time |-> c, lower_deriv |-> ld, upper_deriv |-> cd]
    ELSE IF cd * ud < 0
    THEN [brk |-> FALSE, lower_time |-> c, upper_time |-> ut, lower_deriv |-> cd, upper_deriv |-> ud]
    ELSE [brk |-> TRUE, lower_time |-> lt, upper_time |-> ut, lower_deriv |-> ld, upper_deriv |-> ud]

RateFns(lo, hi) == {[root2 |-> r, dir |-> d] : r \in (2 * lo)..(2 * hi), d \in {1, 0 - 1}}

\* Lines 37-43
FmInit ==
    /\ fm_pc = "loop"
    /\ bracket \in {[lo |-> 0, hi |-> w] : w \in 1..MaxWidth}
    /\ rate_fn \in RateFns(bracket.lo, bracket.hi)
    /\ iteration = 0
    /\ lower_time = bracket.lo
    /\ upper_time = bracket.hi
    /\ lower_deriv = elevation_derivative(rate_fn, lower_time)
    /\ upper_deriv = elevation_derivative(rate_fn, upper_time)
    /\ max_ele_time_candidate \in Midpoints(upper_time, lower_time)

\* Lines 37-43 under a rate of which nothing is known
FmInitAny ==
    /\ fm_pc = "loop"
    /\ bracket \in {[lo |-> 0, hi |-> w] : w \in 1..MaxWidth}
    /\ rate_fn = AnyRate
    /\ iteration = 0
    /\ lower_time = bracket.lo
    /\ upper_time = bracket.hi
    /\ lower_deriv \in ElevationRates(rate_fn, lower_time)
    /\ upper_deriv \in ElevationRates(rate_fn, upper_time)
    /\ max_ele_time_candidate \in Midpoints(upper_time, lower_time)

FmIdle ==
    /\ fm_pc = "idle"
    /\ bracket = [lo |-> 0, hi |-> 1]
    /\ rate_fn = [root2 |-> 1, dir |-> 1]
    /\ iteration = 0
    /\ lower_time = 0
    /\ upper_time = 1
    /\ lower_deriv = 1
    /\ upper_deriv = 0 - 1
    /\ max_ele_time_candidate = 0

\* One test of the while condition of line 44 and, when it holds, one
\* iteration of the loop body (lines 45-60)
FmStep ==
    /\ fm_pc = "loop"
    /\ IF Abs(lower_time - upper_time) > Tolerance /\ iteration < MaxIterations
       THEN \E candidate_deriv \in ElevationRates(rate_fn, max_ele_time_candidate) :
            LET n == Narrow(lower_time, upper_time, lower_deriv, upper_deriv,
                            max_ele_time_candidate, candidate_deriv)
            IN  IF n.brk
                THEN /\ fm_pc' = "done"
                     /\ UNCHANGED <<lower_time, upper_time, lower_deriv, upper_deriv,
                                    max_ele_time_candidate, iteration>>
                ELSE /\ lower_time' = n.lower_time
                     /\ upper_time' = n.upper_time
                     /\ lower_deriv' = n.lower_deriv
                     /\ upper_deriv' = n.upper_deriv
                     /\ iteration' = iteration + 1
                     /\ max_ele_time_candidate' \in Midpoints(n.upper_time, n.lower_time)
                     /\ UNCHANGED fm_pc
       ELSE /\ fm_pc' = "done"
            /\ UNCHANGED <<lower_time, upper_time, lower_deriv, upper_deriv,
                           max_ele_time_candidate, iteration>>
    /\ UNCHANGED <<bracket, rate_fn, selVars, ldVars, bdeck, itpVars, bpVars, plVars, tleVars>>

----------------------------------------------------------------------------
(* main.rs: the correlation pipeline                                        *)
(*                                                                          *)
(* Orbital::get_passes is a pure function of the element record, the scan   *)
(* range and the observer's position; what it answers rests on the external *)
(* kinematics and geodesic capabilities.  The model fixes these answers by  *)
(* a sky: a time-ordered sequence of overpasses [k, t, lat, lon], satellite *)
(* k being closest at time t to an observer on the meridian lon, at         *)
(* latitude lat.  An observer at another whole-degree cell sees the         *)
(* closest approach LagPerDegree seconds later per degree of longitude, at  *)
(* KmPerDegree km per degree of offset, DegPerDegree degrees lower per      *)
(* degree of offset, and not at all beyond Horizon degrees.  A window lasts *)
(* HalfPass seconds either side of the closest approach and is complete     *)
(* when its set falls inside the scan range.                                *)

LagPerDegree == 60
KmPerDegree == 500
DegPerDegree == 30
Horizon == 2
HalfPass == 300

Cell(r) == r.n \div r.d

Offset(o, lon, lat) == Abs(Cell(lat) - o.lat) + Abs(Cell(lon) - o.lon)

CpaTime(o, lon) == o.t + LagPerDegree * (Cell(lon) - o.lon)

\* SatPassEvent
SatPassEvent(o, lon, lat) ==
    [cpa_time |-> CpaTime(o, lon),
     cpa_distance |-> KmPerDegree * Offset(o, lon, lat),
     elevation |-> 90 - DegPerDegree * Offset(o, lon, lat)]

\* Orbital::get_passes(start_utc, interval_sec, longitude, latitude) of the
\* orbital built from element record k: one event per complete window, in
\* the order of the scan
get_passes(k, start, interval_sec, lon, lat) ==
    LET Complete(o) ==
            /\ o.k = k
            /\ Offset(o, lon, lat) <= Horizon
            /\ start <= CpaTime(o, lon) + HalfPass
            /\ CpaTime(o, lon) + HalfPass <= start + interval_sec
        seen == SelectSeq(sky, Complete)
    IN  [j \in 1..Len(seen) |-> SatPassEvent(seen[j], lon, lat)]

\* An event that carries the refined elevation in place of the intensity
TCSatPassEventElevation(refined_event, intens_i) ==
    [cpa_time |-> refined_event.cpa_time,
     cpa_distance |-> refined_event.cpa_distance,
     sat_zenith |-> 90 - refined_event.elevation,
     intensity |-> Whole(refined_event.elevation)]

\* Lines 99-104
TCSatPassEvent(refined_event, intens_i) ==
    [cpa_time |-> refined_event.cpa_time,
     cpa_distance |-> refined_event.cpa_distance,
     sat_zenith |-> 90 - refined_event.elevation,
     intensity |-> intens_i]

\* The intensity test turned around
BelowThresholdInverted(intens_i) == RatLt(Whole(intensity_thres), intens_i)

\* intens_i < intensity_thres (line 93)
BelowThreshold(intens_i) == RatLt(intens_i, Whole(intensity_thres))

\* Lines 96-106: the refined search about ptime from the interpolated
\* position, and the events it adds to acc
RefinedEvents(k, ptime, lat_i, lon_i, intens_i) ==
    LET pass_refined == get_passes(k, ptime - 1800, 3600, lon_i, lat_i)
        kept == SelectSeq(pass_refined, LAMBDA r : r.cpa_distance <= distance_thres)
    IN  [j \in 1..Len(kept) |-> TCSatPassEvent(kept[j], intens_i)]

\* One iteration of the loop of lines 88-108 once interpolate_with_index
\* has had outcome o: the cursor it leaves and the events added to acc
Handled(k, ptime, o) ==
    [ptime |-> ptime,
     interp |-> o.result,
     index |-> o.index,
     events |->
        IF o.result = None THEN <<>>
        ELSE IF BelowThreshold(o.result[2][3]) THEN <<>>
        ELSE RefinedEvents(k, ptime, o.result[2][1], o.result[2][2], o.result[2][3])]

\* An accumulator that starts from the one of the fix before
CarriedAcc(tk, i) == IF i > 0 THEN tk[i - 1].acc ELSE <<>>

\* let mut acc = Vec::new() (line 78)
NewAcc(tk, i) == <<>>

FixIndices == 0..(Len(bdeck.time) - 1)

Queued == [pc |-> "queued", pass_events |-> <<>>, tle_index |-> None, interp_index |-> 0,
           acc |-> <<>>, handled |-> <<>>]

\* step_sec = config.step_hours * 3600.0 (line 72)
step_sec == step_hours * 3600

\* Skies: time-ordered overpasses of the satellites of the two element
\* records: shortly after the first fix, straddling the second, after it
OverpassTimes == <<2400, 21500, 24000>>
OverpassAt(n, k, lon) == [k |-> k, t |-> OverpassTimes[n], lat |-> 10, lon |-> lon]
Skies ==
    {<<>>} \cup
    UNION {{[j \in 1..m |-> OverpassAt(ns[j], ks[j], lons[j])] :
               ks \in [1..m -> {0, 1}], lons \in [1..m -> {129, 131}],
               ns \in {f \in [1..m -> 1..Len(OverpassTimes)] : \A j \in 1..(m - 1) : f[j] < f[j + 1]}} :
           m \in 1..MaxOverpasses}

\* Tracks on the six-hour cadence, moving east or west, weakening or growing
PipelineFixValues == {<<10, lon, intens>> : lon \in {130, 140}, intens \in {50, 150}}
PipelineTracks ==
    {NoFixes} \cup
    UNION {{TrackOf([j \in 1..n |-> (j - 1) * 21600], v) : v \in [1..n -> PipelineFixValues]} :
             n \in 1..MaxTasks}

PlInit ==
    /\ pl_pc = "parallel"
    /\ intensity_thres = 100
    /\ distance_thres = 600
    /\ step_hours \in {6, 12}
    /\ tles \in {<<>>, <<0, 30000>>}
    /\ bdeck \in PipelineTracks
    /\ sky \in Skies
    /\ workers \in 1..MaxWorkers
    /\ task = [i \in FixIndices |-> Queued]
    /\ all_passes = Pending

PlIdle ==
    /\ pl_pc = "idle"
    /\ intensity_thres = 100
    /\ distance_thres = 1165
    /\ sky = <<>>
    /\ workers = 1
    /\ task = <<>>
    /\ all_passes = Pending

Running == {i \in DOMAIN task : task[i].pc = "running"}

\* A worker takes fix i: lines 78-87
TaskStart(i) ==
    /\ pl_pc = "parallel"
    /\ task[i].pc = "queued"
    /\ Cardinality(Running) < workers
    /\ \E sel \in select_tle_index(tles, At(bdeck.time, i)) :
          IF sel = None
          THEN task' = [task EXCEPT ![i] = [@ EXCEPT !.pc = "done", !.acc = NewAcc(task, i)]]
          ELSE task' = [task EXCEPT ![i] =
                   [pc |-> "running",
                    tle_index |-> sel,
                    pass_events |-> get_passes(sel[2], At(bdeck.time, i), step_sec,
                                               Whole(At(bdeck.longitude, i)),
                                               Whole(At(bdeck.latitude, i))),
                    interp_index |-> i,
                    acc |-> NewAcc(task, i),
                    handled |-> <<>>]]
    /\ UNCHANGED <<pl_pc, intensity_thres, distance_thres, sky, workers, all_passes>>
    /\ UNCHANGED <<selVars, ldVars, bdeck, itpVars, bpVars, fmVars, tleVars>>

\* One iteration of the loop of lines 88-108 in the task of fix i, or its
\* end (line 109)
TaskEvent(i) ==
    /\ pl_pc = "parallel"
    /\ task[i].pc = "running"
    /\ IF task[i].pass_events = <<>>
       THEN task' = [task EXCEPT ![i].pc = "done"]
       ELSE LET ptime == Head(task[i].pass_events).cpa_time
            IN  \E o \in interpolate_with_index(bdeck, ptime, task[i].interp_index) :
                    LET h == Handled(task[i].tle_index[2], ptime, o)
                    IN  task' = [task EXCEPT ![i] =
                            [@ EXCEPT !.pass_events = Tail(@),
                                      !.interp_index = h.index,
                                      !.acc = @ \o h.events,
                                      !.handled = Append(@, h)]]
    /\ UNCHANGED <<pl_pc, intensity_thres, distance_thres, sky, workers, all_passes>>
    /\ UNCHANGED <<selVars, ldVars, bdeck, itpVars, bpVars, fmVars, tleVars>>

RECURSIVE Flatten(_, _)
Flatten(tk, n) == IF n = 0 THEN <<>> ELSE Flatten(tk, n - 1) \o tk[n - 1].acc

\* .collect::<Vec<_>>().into_iter().flatten().collect() (lines 111-114)
Collect ==
    /\ pl_pc = "parallel"
    /\ \A i \in DOMAIN task : task[i].pc = "done"
    /\ all_passes' = Flatten(task, Len(bdeck.time))
    /\ pl_pc' = "collected"
    /\ UNCHANGED <<intensity_thres, distance_thres, sky, workers, task>>
    /\ UNCHANGED <<selVars, ldVars, bdeck, itpVars, bpVars, fmVars, tleVars>>

----------------------------------------------------------------------------
(* Specifications                                                           *)

\* The element store answering one nearest-epoch query
InitSelect == SelInit /\ LdIdle /\ bdeck = NoFixes /\ ItpIdle /\ BpIdle /\ FmIdle /\ PlIdle /\ TleIdle
SelNext == Select
SpecSelect == InitSelect /\ [][SelNext]_vars

\* The track store answering one interpolation query
InitInterp == ItpInit /\ SelIdle /\ LdIdle /\ BpIdle /\ FmIdle /\ PlIdle /\ TleIdle
ItpNext == Interpolate
SpecInterp == InitInterp /\ [][ItpNext]_vars

\* The same query against a track whose times follow the file's order
InitInterpFileOrder == ItpInitFileOrder /\ SelIdle /\ LdIdle /\ BpIdle /\ FmIdle /\ PlIdle /\ TleIdle
SpecInterpFileOrder == InitInterpFileOrder /\ [][ItpNext]_vars

\* One run of build_passes
InitPasses == BpInit /\ SelIdle /\ LdIdle /\ bdeck = NoFixes /\ ItpIdle /\ FmIdle /\ PlIdle /\ TleIdle
BpNext == BpEntry \/ BpRiseStep \/ BpSetStep
SpecPasses == InitPasses /\ [][BpNext]_vars

\* One run of Orbital::get_passes: build_passes, then the loop over its windows
GpNext == BpNext \/ GetPassesStep
SpecGetPasses == InitPasses /\ [][GpNext]_vars

\* One run of build_passes in which the function keeps running: the calls
\* it makes return, so a step that can be taken is taken
SpecPassesFair == SpecPasses /\ WF_vars(BpNext)

\* One run of BDeck::from_file
InitLoad == LdInit /\ SelIdle /\ ItpIdle /\ BpIdle /\ FmIdle /\ PlIdle /\ TleIdle
LdNext == LoadLine
SpecLoad == InitLoad /\ [][LdNext]_vars

\* One run of BDeck::from_file over records that differ in their fields
InitLoadFields == LdInitFields /\ SelIdle /\ ItpIdle /\ BpIdle /\ FmIdle /\ PlIdle /\ TleIdle
SpecLoadFields == InitLoadFields /\ [][LdNext]_vars

\* One call of tle_epoch_to_timestamp
InitEpoch == EpInit /\ tl_pc = "idle" /\ content = <<>> /\ tle_lines = <<>>
                    /\ SelIdle /\ LdIdle /\ bdeck = NoFixes /\ ItpIdle /\ BpIdle /\ FmIdle /\ PlIdle
EpNext == Convert
SpecEpoch == InitEpoch /\ [][EpNext]_vars

\* One run of TLEManager::from_file
InitTleLoad == TlInit /\ tle_epoch = EpochField(0, 1, 0) /\ epoch_result = Pending
                    /\ target_time = 0 /\ sel_result = Pending
                    /\ LdIdle /\ bdeck = NoFixes /\ ItpIdle /\ BpIdle /\ FmIdle /\ PlIdle
TlNext == LoadPair
SpecTleLoad == InitTleLoad /\ [][TlNext]_vars

\* The pipeline: the parallel map over the fixes, then the collection
InitPipeline == PlInit /\ target_time = 0 /\ sel_result = Pending
                    /\ ld_pc = "idle" /\ file = <<>> /\ lines = <<>> /\ last_time = <<>>
                    /\ ItpIdle /\ BpIdle /\ FmIdle /\ TleIdle
PlNext == (\E i \in DOMAIN task : TaskStart(i) \/ TaskEvent(i)) \/ Collect
SpecPipeline == InitPipeline /\ [][PlNext]_vars

\* One run of find_max_elevation
InitMaxElevation == FmInit /\ SelIdle /\ LdIdle /\ bdeck = NoFixes /\ ItpIdle /\ BpIdle /\ PlIdle /\ TleIdle
FmNext == FmStep
SpecMaxElevation == InitMaxElevation /\ [][FmNext]_vars

\* One run of find_max_elevation under any rate, in which the function keeps
\* running: the calls it makes return
InitMaxElevationAny == FmInitAny /\ SelIdle /\ LdIdle /\ bdeck = NoFixes /\ ItpIdle /\ BpIdle /\ PlIdle /\ TleIdle
SpecMaxElevationAny == InitMaxElevationAny /\ [][FmNext]_vars /\ WF_vars(FmNext)

----------------------------------------------------------------------------
(* Claims about tle.rs: from_file (SpecTleLoad), tle_epoch_to_timestamp     *)
(* (SpecEpoch)                                                              *)

\* The first lines of the records of the file: lines 1, 3, 5, ... that have
\* a second line after them
FirstLines == {content[k] : k \in {j \in 1..(Len(content) - 1) : j % 2 = 1}}

\* C13: the load fails whenever the epoch field of a record is malformed or
\* absent (a first line too short for the epoch columns included); a store
\* is never returned with such a record left out.
C13_BadEpochFails ==
    tl_pc = "done" =>
        \A l \in FirstLines : l.long /\ tle_epoch_to_timestamp(l.epoch) # Panic

\* Day number since 1970-01-01 of 1 January of the years the fields name
Jan1 == [y \in {1957, 1999, 2000, 2023, 2024, 2056} |->
            CASE y = 1957 -> 0 - 4748
              [] y = 1999 -> 10592
              [] y = 2000 -> 10957
              [] y = 2023 -> 19358
              [] y = 2024 -> 19723
              [] y = 2056 -> 31411]

\* The count of seconds a timestamp stands for
UnixSeconds(ts) == ts.day * 86400 + ts.sec

\* C15: for an epoch field 'YYDDD.fff' with a day of year of the full year
\* (2000 + YY when YY < 57, 1900 + YY otherwise) the timestamp is that of
\* 1 January 00:00 of the full year plus (DDD - 1) days plus the fraction of
\* a day in seconds, rounded to the nearest second; '23045.5' gives
\* 1676376000.
C15_EpochToTimestamp ==
    LET e == tle_epoch
        year == IF e.yy < 57 THEN 2000 + e.yy ELSE 1900 + e.yy
        leap == year \in {2000, 2024, 2056}
        ts == epoch_result[2]
    IN  (epoch_result # Pending /\ ~e.malformed /\ e.ddd >= 1
            /\ e.ddd <= (IF leap THEN 366 ELSE 365)) =>
            /\ epoch_result # Panic
            /\ ts.day = Jan1[year] + (e.ddd - 1)
            /\ 0 <= ts.sec /\ ts.sec < 86400
            /\ 2 * Abs(1000 * ts.sec - 86400 * e.fff) <= 1000
            /\ (e = EpochField(23, 45, 500) => UnixSeconds(ts) = 1676376000)

\* C15 witness: a field of the year 57, the first of the 1900s, on the last
\* day of that year with a fraction that rounds up
C15_Witness ==
    /\ tle_epoch = EpochField(57, 365, 7)
    /\ epoch_result = Some([day |-> 0 - 4384, sec |-> 605])

----------------------------------------------------------------------------
(* Claims about select_tle_index (SpecSelect)                               *)

LastEpoch == At(tles, Len(tles) - 1)

\* C1: on a store sorted by epoch, select_tle_index returns None exactly
\* when the store is empty; otherwise it returns an index whose epoch is
\* at minimum absolute distance from the target (the first index for a
\* target before the first epoch, the last index for one after the last),
\* and on a miss with both neighbours of the insertion point equally
\* distant it returns the earlier neighbour.
C1_SelectNearest ==
    sel_result # Pending =>
        /\ (sel_result = None <=> Len(tles) = 0)
        /\ sel_result # None =>
             LET i == sel_result[2]
             IN  /\ i \in 0..(Len(tles) - 1)
                 /\ \A j \in 0..(Len(tles) - 1) :
                        Abs(At(tles, i) - target_time) <= Abs(At(tles, j) - target_time)
                 /\ (target_time < At(tles, 0) => i = 0)
                 /\ (target_time > LastEpoch => i = Len(tles) - 1)
                 /\ \A ins \in 1..(Len(tles) - 1) :
                        (/\ At(tles, ins - 1) < target_time
                         /\ target_time < At(tles, ins)
                         /\ target_time - At(tles, ins - 1) = At(tles, ins) - target_time)
                        => i = ins - 1

\* C1 witness: a miss exactly halfway between two epochs, answered with
\* the earlier record
C1_Witness ==
    /\ tles = <<1, 3, 5>>
    /\ target_time = 4
    /\ sel_result = Some(1)

----------------------------------------------------------------------------
(* Claims about interpolate_with_index (SpecInterp)                         *)

Returned == itp_result # Pending
FirstTime == At(bdeck.time, 0)
InRange == Len(bdeck.time) > 0 /\ FirstTime <= query_time /\ query_time <= LastTime(bdeck)

\* C2: on a strictly increasing track and for any cursor, the call returns
\* no result when the track is empty or the query time lies outside
\* [first.time, last.time], and returns a result for every query time
\* inside that range.
C2_NoExtrapolation ==
    (Returned /\ IsStrictlyIncreasing(bdeck.time)) =>
        (itp_result = None <=> ~InRange)

\* C2 witness: a query at the last fix's time, with the cursor beyond the
\* track's length, is answered
C2_Witness ==
    /\ Returned
    /\ Len(bdeck.time) = 3
    /\ index0 = 4
    /\ query_time = LastTime(bdeck)
    /\ itp_result # None

\* Field f (1 latitude, 2 longitude, 3 intensity) of fix j of the track
FieldOf(f, j) ==
    IF f = 1 THEN At(bdeck.latitude, j)
    ELSE IF f = 2 THEN At(bdeck.longitude, j)
    ELSE At(bdeck.intensity, j)

\* C3: for consecutive fixes j, j+1 at times t0 < t1, a query at t0 or t1
\* returns that fix's stored values exactly, and a query strictly between
\* returns for each field v0 + ((t - t0) / (t1 - t0)) * (v1 - v0), a value
\* between v0 and v1.
C3_ExactAndLinear ==
    (Returned /\ IsStrictlyIncreasing(bdeck.time)) =>
        \A j \in 0..(Len(bdeck.time) - 2) :
            LET t0 == At(bdeck.time, j)
                t1 == At(bdeck.time, j + 1)
            IN  \A f \in 1..3 :
                    LET v0 == FieldOf(f, j)
                        v1 == FieldOf(f, j + 1)
                    IN  /\ query_time = t0 => (itp_result # None /\ itp_result[2][f] = Whole(v0))
                        /\ query_time = t1 => (itp_result # None /\ itp_result[2][f] = Whole(v1))
                        /\ (t0 < query_time /\ query_time < t1) =>
                             /\ itp_result # None
                             /\ LET r == itp_result[2][f]
                                IN  /\ r.d > 0
                                    /\ r.n * (t1 - t0) =
                                         r.d * (v0 * (t1 - t0) + (query_time - t0) * (v1 - v0))
                                    /\ RatLe(Whole(Min(v0, v1)), r)
                                    /\ RatLe(r, Whole(IF v0 >= v1 THEN v0 ELSE v1))

\* C3 witness: a query one third of the way between the second and third
\* fixes, reached by scanning forward from cursor 0
C3_Witness ==
    /\ Returned
    /\ Len(bdeck.time) = 3
    /\ index0 = 0
    /\ At(bdeck.time, 2) - At(bdeck.time, 1) = 3
    /\ query_time = At(bdeck.time, 1) + 1
    /\ At(bdeck.latitude, 1) = 0
    /\ At(bdeck.latitude, 2) = 3
    /\ itp_result # None
    /\ itp_result[2][1] = Rat(1, 1)

\* C16: on a track with strictly increasing times the value returned does
\* not depend on the cursor: whatever the cursor passed in (behind the query,
\* ahead of it, at or past the track's length), the result is the one a fresh
\* query with cursor 0 returns.
C16_CursorIndependent ==
    Returned => itp_result \in {o.result : o \in interpolate_with_index(bdeck, query_time, 0)}

\* C16 witness: a query answered by interpolation between the first two
\* fixes of a three-fix track, made with a cursor ahead of it
C16_Witness ==
    /\ Returned
    /\ Len(bdeck.time) = 3
    /\ index0 >= 2
    /\ At(bdeck.time, 0) < query_time /\ query_time < At(bdeck.time, 1)
    /\ itp_result # None
    /\ index = 0

\* C22: whenever interpolate_with_index returns no result (the track is
\* empty, the query time lies outside the track's first and last times, or
\* no bracket is found), the caller's cursor is exactly the one passed in.
C22_CursorKeptOnNone ==
    (Returned /\ itp_result = None) => index = index0

\* C22 witness: a query past the last fix of a three-fix track, made with
\* the cursor on the last fix, returns nothing and leaves the cursor there
C22_Witness ==
    /\ Returned
    /\ Len(bdeck.time) = 3
    /\ query_time > LastTime(bdeck)
    /\ index0 = 2
    /\ itp_result = None
    /\ index = 2

\* C17: after a call that returns a result the cursor is the lower bracket
\* index of the query: a valid index i with time[i] <= query_time, and i is
\* the last index or query_time < time[i + 1].
C17_CursorIsLowerBracket ==
    (Returned /\ itp_result # None) =>
        /\ index \in 0..(Len(bdeck.time) - 1)
        /\ At(bdeck.time, index) <= query_time
        /\ (index = Len(bdeck.time) - 1 \/ query_time < At(bdeck.time, index + 1))

\* C17 witness: an exact hit on the fix after the one the forward scan
\* stopped at, the cursor left on the fix that was hit
C17_Witness ==
    /\ Returned
    /\ itp_result # None
    /\ index0 = 0
    /\ index = 2
    /\ Len(bdeck.time) = 3
    /\ query_time = At(bdeck.time, 2)

----------------------------------------------------------------------------
(* Claims about build_passes (SpecPasses)                                   *)

HasRise(p) == p.aos # None
HasSet(p) == p.los # None

\* C4 as stated: every window of the list build_passes returns has both its
\* rise and its set observation (a window whose set was not found before
\* stop_utc is not in the list).
C4_OnlyCompleteWindows ==
    bp_pc = "done" => \A k \in 1..Len(passes) : HasRise(passes[k]) /\ HasSet(passes[k])

\* C4 amended: every window of the list has its rise observation and every
\* window but the last has its set observation too; whenever the scan for
\* the set ends, with or without a set found, the window is appended to the
\* list, so a window whose set was not found before stop_utc is returned as
\* the last window with its set missing.
C4_RiseAlwaysSetButLast ==
    /\ [](\A k \in 1..Len(passes) :
              HasRise(passes[k]) /\ (k < Len(passes) => HasSet(passes[k])))
    /\ [][(bp_pc = "set" /\ bp_pc' # "set") =>
              /\ Len(passes') = Len(passes) + 1
              /\ SubSeq(passes', 1, Len(passes)) = passes
              /\ passes'[Len(passes')].aos = pass.aos]_vars

\* C4 witness: the scan has ended with a complete window followed by a
\* window that has a rise and no set
C4_Witness ==
    /\ bp_pc = "done"
    /\ Len(passes) = 2
    /\ HasRise(passes[1]) /\ HasSet(passes[1])
    /\ HasRise(passes[2]) /\ ~HasSet(passes[2])

\* A scan iteration that detects no boundary: the rise loop goes round
\* again, or the set loop goes round again or ends at stop_utc without a set
NoBoundaryStep ==
    \/ bp_pc = "rise" /\ bp_pc' = "rise"
    \/ bp_pc = "set" /\ bp_pc' = "set"
    \/ bp_pc = "set" /\ bp_pc' = "rise" /\ ~HasSet(passes'[Len(passes')])

\* C18: build_passes terminates for every elevation and elevation-rate
\* profile and every start_utc <= stop_utc: every scan iteration that detects
\* no boundary moves the scan time on by at least the fine step, every
\* rise-then-set cycle ends with the scan time after the time its rise was
\* detected at (one fine step after the time handed to the refinement), the
\* scan ends as soon as the rise loop finds the scan time at or past
\* stop_utc, and it does end.
C18_ScanTerminates ==
    /\ <>(bp_pc = "done")
    /\ [](bp_pc = "done" => currtime >= stop_utc)
    /\ [][NoBoundaryStep => currtime' >= currtime + fine_step_sec]_vars
    /\ [][(bp_pc = "set" /\ bp_pc' = "rise") =>
              currtime' > pass.aos[2] + fine_step_sec]_vars
    /\ [][(bp_pc = "rise" /\ currtime >= stop_utc) => bp_pc' = "done"]_vars

\* C18 witness: the scan has ended after two rise-then-set cycles
C18_Witness ==
    /\ bp_pc = "done"
    /\ Len(passes) = 2
    /\ HasSet(passes[1]) /\ HasSet(passes[2])
    /\ currtime >= stop_utc

----------------------------------------------------------------------------
(* Claims about Orbital::get_passes (SpecGetPasses)                         *)

\* The windows with both observations among the first n that build_passes
\* returned, in the order of the scan
RECURSIVE CompleteWindows(_)
CompleteWindows(n) ==
    IF n = 0 THEN <<>>
    ELSE IF HasRise(passes[n]) /\ HasSet(passes[n])
         THEN Append(CompleteWindows(n - 1), passes[n])
         ELSE CompleteWindows(n - 1)

\* C20: every event get_passes returns comes from a window with both a rise
\* and a set observation; a window with a boundary missing gives no event;
\* there is exactly one event per complete window, in the order in which
\* the scan found the windows (the k-th event's closest approach lies in the
\* k-th complete window).
C20_OneEventPerCompleteWindow ==
    /\ bp_pc = "returned" =>
          LET w == CompleteWindows(Len(passes))
          IN  /\ Len(pass_events) = Len(w)
              /\ \A k \in 1..Len(w) :
                    /\ w[k].aos[2] <= pass_events[k].cpa_time
                    /\ pass_events[k].cpa_time <= w[k].los[2]
              /\ \A k \in 1..(Len(w) - 1) :
                    pass_events[k].cpa_time <= pass_events[k + 1].cpa_time
    /\ bp_pc = "done" =>
          Len(pass_events) = Len(CompleteWindows(Len(passes) - Len(pass_iter)))

\* C20 witness: get_passes has returned two events for a scan that found
\* two complete windows and a last one with no set
C20_Witness ==
    /\ bp_pc = "returned"
    /\ Len(passes) = 3
    /\ ~HasSet(passes[3])
    /\ Len(pass_events) = 2

\* C21: build_passes walks backward from start_time only when the elevation
\* at start_time is at or above the minimum-elevation threshold; when the
\* satellite is below the threshold at start_time the scan begins at
\* start_time itself, so past the entry the scan time is never before
\* start_time while the observation at start_time is below the threshold.
C21_ScanStartsAtStartWhenBelow ==
    (bp_pc # "entry" /\ obs.time = start_utc /\ obs.el < min_elevation) =>
        currtime >= start_utc

----------------------------------------------------------------------------
(* Claims about find_max_elevation (SpecMaxElevation)                       *)

\* The returned time is within the tolerance of the sign change (at root2 / 2)
NearRoot == Abs(2 * max_ele_time_candidate - rate_fn.root2) <= 2 * Tolerance

RootStrictlyInside ==
    /\ elevation_derivative(rate_fn, bracket.lo) # 0
    /\ elevation_derivative(rate_fn, bracket.hi) # 0

\* C7 as stated: for a rate with a single sign change anywhere in
\* [t_lo, t_hi], bounds included, the returned time is within 1e-6 s of the
\* sign change unless all 10,000 iterations were used.
C7_ConvergesAnywhere ==
    (fm_pc = "done" /\ iteration < MaxIterations) => NearRoot

\* C7 amended: for a rate with a single sign change strictly inside
\* (t_lo, t_hi), so that the rate is non-zero at both bounds (the change may
\* fall exactly on a midpoint), the returned time is within 1e-6 s of the
\* sign change unless all 10,000 iterations were used.
C7_ConvergesInside ==
    (fm_pc = "done" /\ iteration < MaxIterations /\ RootStrictlyInside) => NearRoot

\* C7 witness: a sign change strictly inside a wide bracket, found after
\* several halvings
C7_Witness ==
    /\ fm_pc = "done"
    /\ RootStrictlyInside
    /\ bracket.hi - bracket.lo > 4 * Tolerance
    /\ iteration >= 3
    /\ NearRoot

\* C19: find_max_elevation terminates, after at most 10,000 iterations,
\* for every elevation rate and every bracket; an iteration that does not
\* stop replaces one bound by the midpoint, so that the bracket halves (to
\* the rounding of the midpoint) and stays inside the original bracket; the
\* time returned lies inside the original bracket [t_lo, t_hi].
C19_BisectionTerminates ==
    /\ <>(fm_pc = "done")
    /\ [](iteration <= MaxIterations)
    /\ [](/\ bracket.lo <= lower_time /\ lower_time <= max_ele_time_candidate
          /\ max_ele_time_candidate <= upper_time /\ upper_time <= bracket.hi)
    /\ [][iteration' # iteration =>
            /\ iteration' = iteration + 1
            /\ \/ lower_time' = max_ele_time_candidate /\ upper_time' = upper_time
               \/ upper_time' = max_ele_time_candidate /\ lower_time' = lower_time
            /\ 2 * (upper_time' - lower_time') <= (upper_time - lower_time) + 1
            /\ 2 * (upper_time' - lower_time') >= (upper_time - lower_time) - 1]_vars
    /\ [][fm_pc' = "done" => UNCHANGED <<max_ele_time_candidate, iteration>>]_vars

\* C19 witness: a widest bracket halved three times, the returned time
\* inside it
C19_Witness ==
    /\ fm_pc = "done"
    /\ rate_fn = AnyRate
    /\ bracket.hi - bracket.lo = MaxWidth
    /\ iteration = 3
    /\ upper_time - lower_time <= Tolerance
    /\ bracket.lo < max_ele_time_candidate /\ max_ele_time_candidate < bracket.hi

----------------------------------------------------------------------------
(* Claims about BDeck::from_file (SpecLoad)                                 *)

\* Hour of day of a stored timestamp
HourOfDay(t) == (t \div 3600) % 24

\* C8: after from_file has read any sequence of well-formed records, in any
\* order and with any repetitions, the stored fix times are strictly
\* increasing.
C8_TimesStrictlyIncreasing ==
    ld_pc = "done" => IsStrictlyIncreasing(bdeck.time)

\* C9: a record is retained by the load only if its hour of day is divisible
\* by the configured step interval (--step-hours), for every allowed value
\* of that configuration.
C9_RetainedOnConfiguredCadence ==
    \A k \in 1..Len(bdeck.time) : HourOfDay(bdeck.time[k]) % step_hours = 0

\* Record k of the file is the first of a run of records with one timestamp:
\* it is on the six-hour cadence and the record on the cadence before it, if
\* any, has another line_time
FirstOfRun(k) ==
    /\ ~OffCadence(file[k])
    /\ LET before == {j \in 1..(k - 1) : ~OffCadence(file[j])}
       IN  \A j \in before :
               (\A m \in before : m <= j) => LineTime(file[j]) # LineTime(file[k])

\* The first records of the runs among the first n records, in file order
RECURSIVE Firsts(_)
Firsts(n) ==
    IF n = 0 THEN <<>>
    ELSE IF FirstOfRun(n) THEN Append(Firsts(n - 1), file[n])
    ELSE Firsts(n - 1)

\* C11: records with one timestamp that follow one another, with or without
\* records removed by the cadence filter between them, leave exactly one fix,
\* which carries the intensity, latitude and longitude of the first of them:
\* the store holds, in file order, one fix for the first record of each run.
C11_FirstOfRunWins ==
    ld_pc = "done" =>
        LET f == Firsts(Len(file))
        IN  /\ bdeck.time = [k \in 1..Len(f) |-> Timestamp(f[k])]
            /\ bdeck.intensity = [k \in 1..Len(f) |-> f[k].wind]
            /\ bdeck.latitude = [k \in 1..Len(f) |-> f[k].lat]
            /\ bdeck.longitude = [k \in 1..Len(f) |-> f[k].lon]

\* C11 witness: two records with one timestamp and different intensities,
\* a record off the cadence between them, and the first one's fix stored
C11_Witness ==
    /\ ld_pc = "done"
    /\ Len(file) = 3
    /\ ~OffCadence(file[1]) /\ OffCadence(file[2]) /\ ~OffCadence(file[3])
    /\ LineTime(file[1]) = LineTime(file[3])
    /\ file[1].wind # file[3].wind
    /\ bdeck.intensity = <<file[1].wind>>

----------------------------------------------------------------------------
(* Claims about BDeck::from_file (SpecLoadFields)                           *)

\* C12: the load fails, and returns no store, whenever a record it retains
\* has a malformed numeric field (timestamp, intensity, latitude or
\* longitude); no malformed field is replaced by a default value.
C12_MalformedFieldFails ==
    ld_pc = "done" =>
        \A k \in 1..Len(file) : FirstOfRun(k) => file[k].malformed = "none"

\* C14: every stored longitude lies in [0, 360): an east-hemisphere value is
\* stored unchanged and a west-hemisphere value of magnitude m as 360 - m
\* (tenths of a degree here).
C14_LongitudeNormalised ==
    ld_pc = "done" =>
        LET f == Firsts(Len(file))
        IN  /\ Len(bdeck.longitude) = Len(f)
            /\ \A k \in 1..Len(f) :
                  /\ bdeck.longitude[k] = IF f[k].ew = "W" THEN 3600 - f[k].lon ELSE f[k].lon
                  /\ 0 <= bdeck.longitude[k] /\ bdeck.longitude[k] < 3600

----------------------------------------------------------------------------
(* Claims about the correlation pipeline (SpecPipeline)                     *)

Range(s) == {s[j] : j \in DOMAIN s}

\* The candidates fix i has treated so far, and the events each one added
HandledBy(i) == Range(task[i].handled)

RECURSIVE EventsOfHandled(_)
EventsOfHandled(hs) ==
    IF hs = <<>> THEN <<>> ELSE Head(hs).events \o EventsOfHandled(Tail(hs))

\* What the refined search about candidate h of fix i answered
RefinedSearch(i, h) ==
    get_passes(task[i].tle_index[2], h.ptime - 1800, 3600, h.interp[2][2], h.interp[2][1])

\* C5: every emitted event has intensity >= the intensity threshold,
\* distance <= the distance threshold and zenith = 90 - the elevation of
\* the refined event it was made from; a candidate whose interpolation
\* returned no result, or an intensity below the threshold, adds no event.
C5_EventsPassThresholds ==
    /\ \A i \in DOMAIN task :
          /\ task[i].acc = EventsOfHandled(task[i].handled)
          /\ \A h \in HandledBy(i) :
                /\ (h.interp = None \/ RatLt(h.interp[2][3], Whole(intensity_thres)))
                      => h.events = <<>>
                /\ \A e \in Range(h.events) :
                      /\ RatLe(Whole(intensity_thres), e.intensity)
                      /\ e.cpa_distance <= distance_thres
                      /\ \E r \in Range(RefinedSearch(i, h)) :
                            /\ e.cpa_time = r.cpa_time
                            /\ e.cpa_distance = r.cpa_distance
                            /\ e.sat_zenith = 90 - r.elevation
    /\ pl_pc = "collected" =>
          \A e \in Range(all_passes) :
              /\ RatLe(Whole(intensity_thres), e.intensity)
              /\ e.cpa_distance <= distance_thres

\* C5 witness: the collected output holds an event, one candidate was
\* dropped for want of an interpolation and one for its low intensity
C5_Witness ==
    /\ pl_pc = "collected"
    /\ all_passes # <<>>
    /\ \E i \in DOMAIN task : \E h \in HandledBy(i) : h.interp = None
    /\ \E i \in DOMAIN task : \E h \in HandledBy(i) :
          h.interp # None /\ RatLt(h.interp[2][3], Whole(intensity_thres))

\* The events of fix i as one worker computes them, start to end
RECURSIVE FoldEvents(_, _, _)
FoldEvents(k, events, cursor) ==
    IF events = <<>> THEN <<>>
    ELSE LET ptime == Head(events).cpa_time
             o == CHOOSE x \in interpolate_with_index(bdeck, ptime, cursor) : TRUE
             h == Handled(k, ptime, o)
         IN  h.events \o FoldEvents(k, Tail(events), h.index)

SequentialEvents(i) ==
    LET sel == CHOOSE x \in select_tle_index(tles, At(bdeck.time, i)) : TRUE
    IN  IF sel = None THEN <<>>
        ELSE FoldEvents(sel[2],
                        get_passes(sel[2], At(bdeck.time, i), step_sec,
                                   Whole(At(bdeck.longitude, i)), Whole(At(bdeck.latitude, i))),
                        i)

RECURSIVE SequentialRun(_)
SequentialRun(n) == IF n = 0 THEN <<>> ELSE SequentialRun(n - 1) \o SequentialEvents(n - 1)

BagOfSeq(s) == [e \in Range(s) |-> Cardinality({j \in DOMAIN s : s[j] = e})]

\* C6: with any number of workers and under any interleaving of the per-fix
\* tasks the collected events are, as a multiset, those of the one-worker
\* run, fix by fix a function of the element store, the track and the fix's
\* index alone; a step of a task changes that task's own state (its cursor,
\* its result list) and nothing else.
C6_SameEventsUnderAnySchedule ==
    /\ [](pl_pc = "collected" =>
            BagOfSeq(all_passes) = BagOfSeq(SequentialRun(Len(bdeck.time))))
    /\ [][\A i \in DOMAIN task :
             task'[i] # task[i] =>
                /\ \A j \in DOMAIN task \ {i} : task'[j] = task[j]
                /\ UNCHANGED <<tles, bdeck, sky, all_passes>>]_vars

\* C6 witness: two workers, two fixes, each fix with an event of its own in
\* the collected output
C6_Witness ==
    /\ pl_pc = "collected"
    /\ workers = 2
    /\ Len(bdeck.time) = 2
    /\ task[0].acc # <<>>
    /\ task[1].acc # <<>>
    /\ Len(all_passes) = Len(task[0].acc) + Len(task[1].acc)

\* The track interpolated afresh at time t: None or Some(<<lat, lon, intensity>>)
TrackAt(t) == {o.result : o \in interpolate_with_index(bdeck, t, 0)}

\* C10 as stated: the intensity of each emitted event is the track's
\* intensity interpolated at that event's own cpa_time.
C10_IntensityAtEventTime ==
    \A i \in DOMAIN task : \A e \in Range(task[i].acc) :
        \A v \in TrackAt(e.cpa_time) : v # None /\ RatEq(v[2][3], e.intensity)

\* C10 amended: the intensity of each emitted event is the track's
\* intensity interpolated at the candidate closest-approach time (the
\* cpa_time of the first, coarse search) whose refined search produced the
\* event; the event's own cpa_time is the refined one.
C10_IntensityAtCandidateTime ==
    \A i \in DOMAIN task :
        /\ task[i].acc = EventsOfHandled(task[i].handled)
        /\ \A h \in HandledBy(i) : \A e \in Range(h.events) :
              /\ \A v \in TrackAt(h.ptime) : v # None /\ RatEq(v[2][3], e.intensity)
              /\ e.cpa_time \in {r.cpa_time : r \in Range(RefinedSearch(i, h))}

\* C10 witness: an emitted event whose refined cpa_time differs from the
\* candidate time its intensity was interpolated at
C10_Witness ==
    \E i \in DOMAIN task : \E h \in HandledBy(i) : \E e \in Range(h.events) :
        /\ e.cpa_time # h.ptime
        /\ \A v \in TrackAt(e.cpa_time) : v # None /\ ~RatEq(v[2][3], e.intensity)

============================================================================
